---- MODULE Spec2Model ----
(***************************************************************************)
(* Model of the audit scanner: the policy matcher (policyMatches), the     *)
(* scan loops (ScanNamespace, ScanAllNamespaces, auditResource, the        *)
(* evaluator call, ScanClusterWideResources), the report store's Save       *)
(* against the versioned report repository, and the store's in-memory      *)
(* cache of reports with its two read/write mutexes.                       *)
(***************************************************************************)
EXTENDS Integers, Sequences, FiniteSets, TLC

VARIABLES
    \* ---- policy matcher harness
    mPc, mPolicy, mResource, mResult,
    \* ---- report repository and PolicyReportStore.Save
    repo, savePc, saveTarget, saveReport, reportRV, resultRV, getObjRV,
    attempt, lastErr, saveRet, saveLog, firstGet, extOps, updSent, saveCalls,
    \* ---- Save harness (a sequence of Save calls on one report)
    saveNo, saveHist, exhausted,
    \* ---- scanner
    mode, scanPc, nsTodo, curNs, gvrTodo, curGvr, resTodo, curRes, polIdx,
    report, auditResponse, retErr, listErr, nsScans, nsResult, evalCalls,
    reconciles, scanLog, cancelled, catalog,
    \* ---- PolicyReportStore: the cache, its mutexes, and the goroutines calling it
    namespacedPolicyReports, clusterPolicyReport,
    namespacedPolicyReportsMutex, clusterPolicyReportMutex,
    opPc, opCall, opResult, storeOps, lastPut,
    \* ---- two goroutines in Save on the same report
    rcPc, rcReport, rcRV, rcAttempt, rcRet, rcLog

matchVars == <<mPc, mPolicy, mResource, mResult>>
saveVars == <<repo, savePc, saveTarget, saveReport, reportRV, resultRV,
              getObjRV, attempt, lastErr, saveRet, saveLog, firstGet, extOps,
              updSent, saveCalls>>
harnessVars == <<saveNo, saveHist, exhausted>>
scanVars == <<mode, scanPc, nsTodo, curNs, gvrTodo, curGvr, resTodo, curRes,
              polIdx, report, auditResponse, retErr, listErr, nsScans,
              nsResult, evalCalls, reconciles, scanLog, cancelled, catalog>>
storeVars == <<namespacedPolicyReports, clusterPolicyReport,
               namespacedPolicyReportsMutex, clusterPolicyReportMutex,
               opPc, opCall, opResult, storeOps, lastPut>>
concVars == <<rcPc, rcReport, rcRV, rcAttempt, rcRet, rcLog>>
vars == <<matchVars, saveVars, harnessVars, scanVars, storeVars, concVars>>

-----------------------------------------------------------------------------
(* Bounds of the model *)

\* longest matchExpressions list of a label selector drawn by the matcher harness
MaxExprs == 1
\* number of writes other actors make to the repository during a run
MaxExternal == 5
\* number of Save calls the Save harness makes in succession
MaxSaves == 2

-----------------------------------------------------------------------------
(* Labels and label selectors (metav1.LabelSelector, labels.Set) *)

LabelKeys == {"app"}
LabelValues == {"a", "b"}
Operators == {"In", "NotIn", "Exists", "DoesNotExist", "Bogus"}

\* a label set: a map from some of the keys to values
LabelSets == UNION {[D -> LabelValues] : D \in SUBSET LabelKeys}

Requirements == [key : LabelKeys, operator : Operators, values : SUBSET LabelValues]

SeqsUpTo(S, n) == UNION {[1..k -> S] : k \in 0..n}

\* A selector pointer: absent (nil) or a LabelSelector with its two fields.
NilSelector == [present |-> FALSE, matchLabels |-> <<>>, matchExpressions |-> <<>>]
Selectors ==
    {NilSelector} \cup
    [present : {TRUE}, matchLabels : LabelSets,
     matchExpressions : SeqsUpTo(Requirements, MaxExprs)]

\* labels.NewRequirement: the operator and the number of values must agree
RequirementValid(r) ==
    CASE r.operator \in {"In", "NotIn"} -> r.values # {}
      [] r.operator \in {"Exists", "DoesNotExist"} -> r.values = {}
      [] OTHER -> FALSE

\* metav1.LabelSelectorAsSelector fails on an unknown operator or on a
\* requirement NewRequirement rejects; matchLabels become Equals requirements
\* with one value, which are always valid.
SelectorMalformed(sel) ==
    \E i \in DOMAIN sel.matchExpressions : ~RequirementValid(sel.matchExpressions[i])

\* labels.Requirement.Matches
RequirementMatches(r, labels) ==
    CASE r.operator = "In" -> r.key \in DOMAIN labels /\ labels[r.key] \in r.values
      [] r.operator = "NotIn" -> r.key \notin DOMAIN labels \/ labels[r.key] \notin r.values
      [] r.operator = "Exists" -> r.key \in DOMAIN labels
      [] r.operator = "DoesNotExist" -> r.key \notin DOMAIN labels
      [] OTHER -> FALSE

\* labels.Selector.Matches of the compiled selector: every requirement holds
\* (an empty selector is labels.Everything()).
SelectorMatches(sel, labels) ==
    /\ \A k \in DOMAIN sel.matchLabels :
          k \in DOMAIN labels /\ labels[k] = sel.matchLabels[k]
    /\ \A i \in DOMAIN sel.matchExpressions :
          RequirementMatches(sel.matchExpressions[i], labels)

\* policyMatches without its first test: LabelSelectorAsSelector(nil) is
\* labels.Nothing(), which matches no resource
policyMatchesNilNothing(policy, resource) ==
    IF ~policy.selector.present
    THEN [matches |-> FALSE, err |-> FALSE]
    ELSE IF SelectorMalformed(policy.selector)
    THEN [matches |-> FALSE, err |-> TRUE]
    ELSE IF ~SelectorMatches(policy.selector, resource.labels)
    THEN [matches |-> FALSE, err |-> FALSE]
    ELSE [matches |-> TRUE, err |-> FALSE]

\* policyMatches returning true with the selector's error
policyMatchesErrTrue(policy, resource) ==
    IF ~policy.selector.present
    THEN [matches |-> TRUE, err |-> FALSE]
    ELSE IF SelectorMalformed(policy.selector)
    THEN [matches |-> TRUE, err |-> TRUE]
    ELSE IF ~SelectorMatches(policy.selector, resource.labels)
    THEN [matches |-> FALSE, err |-> FALSE]
    ELSE [matches |-> TRUE, err |-> FALSE]

\* policyMatches returns (matches, err)
policyMatches(policy, resource) ==
    IF ~policy.selector.present
    THEN [matches |-> TRUE, err |-> FALSE]
    ELSE IF SelectorMalformed(policy.selector)
    THEN [matches |-> FALSE, err |-> TRUE]
    ELSE IF ~SelectorMatches(policy.selector, resource.labels)
    THEN [matches |-> FALSE, err |-> FALSE]
    ELSE [matches |-> TRUE, err |-> FALSE]

-----------------------------------------------------------------------------
(* Inventory of the audited cluster: resources, and the reports named after them *)

Res(name, ns, gvr, labels) == [name |-> name, ns |-> ns, gvr |-> gvr, labels |-> labels]

Pod1 == Res("pod1", "ns1", "pods", [app |-> "a"])
Pod2 == Res("pod2", "ns1", "pods", <<>>)
Pod3 == Res("pod3", "ns2", "pods", [app |-> "b"])
\* a cluster-wide resource: it has no namespace
Node1 == Res("node1", "", "nodes", [app |-> "a"])
Resources == {Pod1, Pod2, Pod3, Node1}
ResourceNames == {r.name : r \in Resources}

\* the namespaces GetAuditedNamespaces lists, in the order listed
AuditedNamespaces == <<"ns1", "ns2">>
Namespaces == {AuditedNamespaces[i] : i \in DOMAIN AuditedNamespaces}

\* pager.EachListItem visits the resources of a type in a namespace in order
ResourcesOf(ns, gvr) ==
    CASE ns = "ns1" /\ gvr = "pods" -> <<Pod1, Pod2>>
      [] ns = "ns2" /\ gvr = "pods" -> <<Pod3>>
      [] OTHER -> <<>>

Pol(name, selector) == [name |-> name, selector |-> selector]

\* policies of the inventory: no selector, a selector on app=a, and a
\* selector whose expression has an unknown operator
PNone == Pol("p-none", NilSelector)
PSel == Pol("p-sel", [present |-> TRUE, matchLabels |-> [app |-> "a"],
                      matchExpressions |-> <<>>])
PBad == Pol("p-bad", [present |-> TRUE, matchLabels |-> <<>>,
                      matchExpressions |->
                          <<[key |-> "app", operator |-> "Bogus", values |-> {"a"}]>>])
Policies == {PNone, PSel, PBad}

\* policies.PoliciesByGVR of a namespace: resource type -> policies bound to it
PoliciesByGVR(ns) ==
    IF ns = "ns1"
    THEN [pods |-> <<PNone, PBad, PSel>>]
    ELSE [pods |-> <<PSel, PNone>>, configmaps |-> <<PNone>>]

\* a ResultEntry: the policy and the outcome recorded for it
Entry(policy, result) == [policy |-> policy, result |-> result]

-----------------------------------------------------------------------------
(* The report repository: one versioned object per report (client.Client) *)

\* retry.DefaultRetry.Steps: attempts RetryOnConflict makes
RetrySteps == 5

\* An object of the repository. Its version is the token of its last write;
\* the repository never hands out the same token twice, so the version of a
\* deleted object is kept to number the next write.
Gone(version) == [exists |-> FALSE, version |-> version, entries |-> <<>>]
Absent == Gone(0)
Stored(version, entries) == [exists |-> TRUE, version |-> version, entries |-> entries]
NextVersion(t) == repo[t].version + 1

\* what another writer of the repository stores
ForeignEntries == <<Entry("foreign", "fail")>>

\* errorMachinery.IsNotFound(getErr)
IsNotFound(err) == err = "notFound"

\* a retry on every error of the closure
IsConflictAnyError(err) == err # "none"

\* retry.RetryOnConflict retries on errors.IsConflict only
IsConflict(err) == err = "conflict"

\* the token of the first lookup reused in every attempt
SetResourceVersionStale(getObjVersion, resultVersion) == resultVersion

\* an Update that appends the report's entries to the persisted ones
UpdatedEntriesMerged(persisted, reported) == persisted \o reported

\* report.SetResourceVersion(getObj.GetResourceVersion()): the token the
\* Update carries is the one of the object read by the closure's own Get,
\* not the one of the first lookup (result).
SetResourceVersion(getObjVersion, resultVersion) == getObjVersion

\* client.Update stores the object passed: the report's entries replace the
\* persisted ones.
UpdatedEntries(persisted, reported) == reported

\* History of a Save call: the version and attempt of the closure's last Get
\* (seenToken, seenAttempt), and for the last Update sent the token it
\* carried, its attempt, and the Get that preceded it.
NoUpdate == [n |-> 0, token |-> 0, attempt |-> 0, getToken |-> 0, getAttempt |-> 0,
             seenToken |-> 0, seenAttempt |-> 0]

\* what a run of Save calls has met: another writer, a failing repository
\* call, and the report of the previous call
CleanHist == [ext |-> FALSE, fault |-> FALSE, prev |-> <<>>]

\* Save's first statements: nothing issued yet
SaveBegin(target, entries, rv) ==
    /\ savePc' = "get1"
    /\ saveTarget' = target
    /\ saveReport' = entries
    /\ reportRV' = rv
    /\ resultRV' = 0
    /\ getObjRV' = 0
    /\ attempt' = 0
    /\ lastErr' = "none"
    /\ saveRet' = "none"
    /\ saveLog' = {}
    /\ firstGet' = "none"
    /\ updSent' = NoUpdate
    /\ saveCalls' = {}

\* Save has returned to its caller: its locals are gone
SaveEnd ==
    /\ savePc' = "idle"
    /\ saveTarget' = "none"
    /\ saveReport' = <<>>
    /\ reportRV' = 0
    /\ resultRV' = 0
    /\ getObjRV' = 0
    /\ attempt' = 0
    /\ lastErr' = "none"
    /\ saveRet' = "none"
    /\ saveLog' = {}
    /\ firstGet' = "none"
    /\ updSent' = NoUpdate
    /\ saveCalls' = {}

\* a retry that reports the last conflict after an attempt that succeeded
SaveFinishRetryKeepsLastErr(retryErr) ==
    /\ lastErr' = retryErr
    /\ saveLog' = saveLog \cup (IF retryErr # "none" \/ lastErr # "none"
                                THEN {"PolicyReport update failed"} ELSE {})
                          \cup {"updated PolicyReport"}
    /\ saveRet' = "nil"
    /\ savePc' = "done"

\* a Save that returns retryErr to its caller
SaveFinishRetryReturnsErr(retryErr) ==
    /\ lastErr' = retryErr
    /\ saveLog' = saveLog \cup (IF retryErr # "none" THEN {"PolicyReport update failed"} ELSE {})
                          \cup {"updated PolicyReport"}
    /\ saveRet' = IF retryErr # "none" THEN "failed when updating PolicyReport" ELSE "nil"
    /\ savePc' = "done"

\* the end of Save's else branch: retryErr is only logged, Save returns nil
SaveFinishRetry(retryErr) ==
    /\ lastErr' = retryErr
    /\ saveLog' = saveLog \cup (IF retryErr # "none" THEN {"PolicyReport update failed"} ELSE {})
                          \cup {"updated PolicyReport"}
    /\ saveRet' = "nil"
    /\ savePc' = "done"

\* s.client.Get(..., result) and the branch on IsNotFound(getErr)
SaveFirstGet ==
    /\ savePc = "get1"
    /\ \E getErr \in {"none", "notFound", "error"} :
          /\ getErr = "none" => repo[saveTarget].exists
          /\ getErr = "notFound" => ~repo[saveTarget].exists
          /\ firstGet' = getErr
          /\ resultRV' = IF getErr = "none" THEN repo[saveTarget].version ELSE 0
          /\ saveHist' = IF getErr = "error" THEN [saveHist EXCEPT !.fault = TRUE] ELSE saveHist
          /\ IF IsNotFound(getErr)
             THEN /\ savePc' = "create"
                  /\ saveLog' = saveLog \cup {"creating policy report..."}
                  /\ attempt' = attempt
             ELSE /\ savePc' = "loopGet"
                  /\ saveLog' = saveLog \cup {"updating policy report..."}
                  /\ attempt' = 1
    /\ saveCalls' = saveCalls \cup {"Get"}
    /\ UNCHANGED <<repo, saveTarget, saveReport, reportRV, getObjRV, lastErr,
                   saveRet, extOps, updSent, exhausted>>

\* s.client.Create(ctx, report): an error is returned wrapped
SaveCreate ==
    /\ savePc = "create"
    /\ saveCalls' = saveCalls \cup {"Create"}
    /\ savePc' = "done"
    /\ \E err \in {"none", "alreadyExists", "invalid", "error"} :
          /\ err = "none" => ~repo[saveTarget].exists /\ reportRV = 0
          /\ err = "alreadyExists" => repo[saveTarget].exists
          \* the API refuses a create that carries a resourceVersion
          /\ err = "invalid" => ~repo[saveTarget].exists /\ reportRV # 0
          /\ saveHist' = IF err = "error" THEN [saveHist EXCEPT !.fault = TRUE] ELSE saveHist
          /\ lastErr' = err
          /\ IF err = "none"
             THEN /\ repo' = [repo EXCEPT ![saveTarget] = Stored(NextVersion(saveTarget), saveReport)]
                  /\ reportRV' = NextVersion(saveTarget)
                  /\ saveRet' = "nil"
             ELSE /\ UNCHANGED <<repo, reportRV>>
                  /\ saveRet' = "failed when creating PolicyReport"
    /\ UNCHANGED <<saveTarget, saveReport, resultRV, getObjRV, attempt, saveLog,
                   firstGet, extOps, updSent, exhausted>>

\* the closure's s.client.Get(..., getObj): not found returns nil (nothing is
\* written and the retry ends), another error ends the retry with that error
SaveLoopGet ==
    /\ savePc = "loopGet"
    /\ saveCalls' = saveCalls \cup {"Get"}
    /\ \E err \in {"none", "notFound", "error"} :
          /\ err = "none" => repo[saveTarget].exists
          /\ err = "notFound" => ~repo[saveTarget].exists
          /\ saveHist' = IF err = "error" THEN [saveHist EXCEPT !.fault = TRUE] ELSE saveHist
          /\ IF err = "none"
             THEN /\ getObjRV' = repo[saveTarget].version
                  /\ reportRV' = SetResourceVersion(repo[saveTarget].version, resultRV)
                  /\ updSent' = [updSent EXCEPT !.seenToken = repo[saveTarget].version,
                                                !.seenAttempt = attempt]
                  /\ savePc' = "update"
                  /\ UNCHANGED <<lastErr, saveLog, saveRet>>
             ELSE /\ SaveFinishRetry(IF IsNotFound(err) THEN "none"
                                     ELSE "failed when getting PolicyReport")
                  /\ UNCHANGED <<getObjRV, reportRV, updSent>>
    /\ UNCHANGED <<repo, saveTarget, saveReport, resultRV, attempt, firstGet, extOps,
                   exhausted>>

\* the closure's s.client.Update(ctx, report) and RetryOnConflict's decision
SaveUpdate ==
    /\ savePc = "update"
    /\ saveCalls' = saveCalls \cup {"Update"}
    /\ updSent' = [updSent EXCEPT !.n = @ + 1, !.token = reportRV, !.attempt = attempt,
                                  !.getToken = updSent.seenToken,
                                  !.getAttempt = updSent.seenAttempt]
    /\ \E err \in {"none", "conflict", "notFound", "error"} :
          /\ err = "none" => repo[saveTarget].exists /\ repo[saveTarget].version = reportRV
          /\ err = "conflict" => repo[saveTarget].exists /\ repo[saveTarget].version # reportRV
          /\ err = "notFound" => ~repo[saveTarget].exists
          /\ saveHist' = IF err = "error" THEN [saveHist EXCEPT !.fault = TRUE] ELSE saveHist
          /\ exhausted' = IF IsConflict(err) /\ attempt >= RetrySteps
                          THEN exhausted \cup {saveTarget} ELSE exhausted
          /\ IF err = "none"
             THEN /\ repo' = [repo EXCEPT ![saveTarget] =
                                 Stored(NextVersion(saveTarget), UpdatedEntries(repo[saveTarget].entries, saveReport))]
                  /\ reportRV' = NextVersion(saveTarget)
                  /\ attempt' = attempt
                  /\ SaveFinishRetry("none")
             ELSE /\ UNCHANGED <<repo, reportRV>>
                  /\ IF IsConflict(err) /\ attempt < RetrySteps
                     THEN /\ attempt' = attempt + 1
                          /\ lastErr' = err
                          /\ savePc' = "loopGet"
                          /\ UNCHANGED <<saveLog, saveRet>>
                     ELSE /\ attempt' = attempt
                          /\ SaveFinishRetry(err)
    /\ UNCHANGED <<saveTarget, saveReport, resultRV, getObjRV, firstGet, extOps>>

SaveRunning == savePc \in {"get1", "create", "loopGet", "update"}

-----------------------------------------------------------------------------
(* Other writers of the repository *)

ExternalUpdate(t) ==
    /\ extOps < MaxExternal
    /\ repo[t].exists
    /\ repo' = [repo EXCEPT ![t] = Stored(NextVersion(t), ForeignEntries)]
    /\ extOps' = extOps + 1
    /\ saveHist' = [saveHist EXCEPT !.ext = TRUE]
    /\ UNCHANGED <<savePc, saveTarget, saveReport, reportRV, resultRV, getObjRV,
                   attempt, lastErr, saveRet, saveLog, firstGet, updSent, saveCalls,
                   exhausted>>

ExternalDelete(t) ==
    /\ extOps < MaxExternal
    /\ repo[t].exists
    /\ repo' = [repo EXCEPT ![t] = Gone(repo[t].version)]
    /\ extOps' = extOps + 1
    /\ saveHist' = [saveHist EXCEPT !.ext = TRUE]
    /\ UNCHANGED <<savePc, saveTarget, saveReport, reportRV, resultRV, getObjRV,
                   attempt, lastErr, saveRet, saveLog, firstGet, updSent, saveCalls,
                   exhausted>>

ExternalCreate(t) ==
    /\ extOps < MaxExternal
    /\ ~repo[t].exists
    /\ repo' = [repo EXCEPT ![t] = Stored(NextVersion(t), ForeignEntries)]
    /\ extOps' = extOps + 1
    /\ saveHist' = [saveHist EXCEPT !.ext = TRUE]
    /\ UNCHANGED <<savePc, saveTarget, saveReport, reportRV, resultRV, getObjRV,
                   attempt, lastErr, saveRet, saveLog, firstGet, updSent, saveCalls,
                   exhausted>>

-----------------------------------------------------------------------------
(* PolicyReportStore: the cache of reports and its two sync.RWMutex *)

\* goroutines that call the store
Goroutines == {"g1", "g2"}
\* calls the goroutines make to the store in a run, all together
MaxOps == 3

\* a cached report: its namespace ("" for a cluster report) and which one it is
CacheReport(ns, id) == [ns |-> ns, id |-> id]
\* the key is not in the map
NoReport == CacheReport("none", "none")
\* what lastPut records for a namespace whose entry was removed
RemovedReport == CacheReport("none", "removed")
\* PolicyReport{}: the zero value GetPolicyReport returns with its error
ZeroReport == CacheReport("", "")
\* NewClusterPolicyReport("clusterwide")
InitialClusterReport == CacheReport("", "clusterwide")
\* report.GetNamespace()
ReportNamespace(rep) == rep.ns

\* what a call returns: (report, error)
Result(rep, err) == [report |-> rep, err |-> err]
NilResult == Result(NoReport, "nil")

\* sync.RWMutex: the goroutine holding it for writing, those holding it for reading
Unlocked == [writer |-> "none", readers |-> {}]
CanLock(m) == m.writer = "none" /\ m.readers = {}
CanRLock(m) == m.writer = "none"
Lock(m, g) == [m EXCEPT !.writer = g]
RLock(m, g) == [m EXCEPT !.readers = @ \cup {g}]
\* a deferred Unlock that releases nothing
UnlockKept(m, g) == m
Unlock(m, g) == [m EXCEPT !.writer = "none"]
RUnlock(m, g) == [m EXCEPT !.readers = @ \ {g}]
Holds(m, g) == m.writer = g \/ g \in m.readers

\* an assignment that overwrites every entry of the map
MapAssignAll(m, k, v) == [n \in DOMAIN m |-> v]
\* s.namespacedPolicyReports[k] = v
MapAssign(m, k, v) == [m EXCEPT ![k] = v]
\* a delete that empties the map
MapDeleteAll(m, k) == [n \in DOMAIN m |-> NoReport]
\* delete(s.namespacedPolicyReports, k)
MapDelete(m, k) == [m EXCEPT ![k] = NoReport]
\* make(map[string]PolicyReport)
MakeMap == [n \in Namespaces |-> NoReport]
\* a lookup that returns the zero value without error
LookupPolicyReportNoError(m, k) ==
    IF m[k] # NoReport THEN Result(m[k], "nil") ELSE Result(ZeroReport, "nil")
\* report, present := s.namespacedPolicyReports[namespace] and the two returns
LookupPolicyReport(m, k) ==
    IF m[k] # NoReport THEN Result(m[k], "nil") ELSE Result(ZeroReport, "report not found")

\* a call in progress: the method, and its namespace or report argument
Call(name, ns, rep) == [name |-> name, ns |-> ns, report |-> rep]
NoCall == Call("none", "none", NoReport)
StoreCalls ==
    {Call("AddPolicyReport", n, CacheReport(n, "r1")) : n \in Namespaces} \cup
    {Call("UpdatePolicyReport", n, CacheReport(n, "r2")) : n \in Namespaces} \cup
    {Call("GetPolicyReport", n, NoReport) : n \in Namespaces} \cup
    {Call("RemovePolicyReport", n, NoReport) : n \in Namespaces} \cup
    {Call("AddClusterPolicyReport", "none", CacheReport("", "c1")),
     Call("UpdateClusterPolicyReport", "none", CacheReport("", "c2")),
     Call("GetClusterPolicyReport", "none", NoReport),
     Call("RemoveAllNamespacedPolicyReports", "none", NoReport),
     Call("ToJSON", "none", NoReport)}

\* the store of NewPolicyReportStore, before any call
StoreIdle ==
    /\ namespacedPolicyReports = MakeMap
    /\ clusterPolicyReport = InitialClusterReport
    /\ namespacedPolicyReportsMutex = Unlocked
    /\ clusterPolicyReportMutex = Unlocked
    /\ opPc = [g \in Goroutines |-> "idle"]
    /\ opCall = [g \in Goroutines |-> NoCall]
    /\ opResult = [g \in Goroutines |-> NilResult]
    /\ storeOps = 0
    /\ lastPut = [n \in Namespaces \cup {"cluster"} |->
                    IF n = "cluster" THEN InitialClusterReport ELSE NoReport]

\* the positions of a goroutine at which it reads or writes a collection:
\* inside the critical section of a locking method, or in ToJSON, which
\* copies the cluster report and then marshals the map
WritesNamespaced(g) ==
    \/ opPc[g] = "cs" /\ opCall[g].name \in {"AddPolicyReport", "UpdatePolicyReport",
                                              "RemoveAllNamespacedPolicyReports"}
    \/ opPc[g] = "cs2" /\ opCall[g].name = "RemovePolicyReport"
ReadsNamespaced(g) ==
    \/ opPc[g] = "cs" /\ opCall[g].name \in {"GetPolicyReport", "RemovePolicyReport"}
    \/ opPc[g] = "tjNamespaces"
WritesCluster(g) ==
    opPc[g] = "cs" /\ opCall[g].name \in {"AddClusterPolicyReport", "UpdateClusterPolicyReport"}
ReadsCluster(g) ==
    \/ opPc[g] = "cs" /\ opCall[g].name = "GetClusterPolicyReport"
    \/ opPc[g] = "tjCluster"

\* the runtime has stopped the process (fatal error: concurrent map
\* iteration and map write)
Crashed == \E g \in Goroutines : opPc[g] = "fatal"

\* a goroutine calls a method of the cache
GoCall(g) ==
    /\ opPc[g] = "idle"
    /\ storeOps < MaxOps
    /\ storeOps' = storeOps + 1
    /\ \E c \in StoreCalls :
          /\ opCall' = [opCall EXCEPT ![g] = c]
          /\ opPc' = [opPc EXCEPT ![g] = IF c.name = "ToJSON" THEN "tjCluster" ELSE "lock"]
    /\ opResult' = [opResult EXCEPT ![g] = NilResult]
    /\ UNCHANGED <<namespacedPolicyReports, clusterPolicyReport,
                   namespacedPolicyReportsMutex, clusterPolicyReportMutex, lastPut>>

\* the method returns res to the goroutine, which keeps what it called
Return(g, res) ==
    /\ opPc' = [opPc EXCEPT ![g] = "idle"]
    /\ opCall' = opCall
    /\ opResult' = [opResult EXCEPT ![g] = res]

\* AddPolicyReport: Lock, defer Unlock, the map entry of the report's
\* namespace is overwritten, return nil
AddPolicyReport(g) ==
    /\ opCall[g].name = "AddPolicyReport"
    /\ \/ /\ opPc[g] = "lock"
          /\ CanLock(namespacedPolicyReportsMutex)
          /\ namespacedPolicyReportsMutex' = Lock(namespacedPolicyReportsMutex, g)
          /\ opPc' = [opPc EXCEPT ![g] = "cs"]
          /\ UNCHANGED <<namespacedPolicyReports, opCall, opResult, lastPut>>
       \/ /\ opPc[g] = "cs"
          /\ namespacedPolicyReports' =
                MapAssign(namespacedPolicyReports, ReportNamespace(opCall[g].report),
                          opCall[g].report)
          /\ lastPut' = [lastPut EXCEPT ![opCall[g].ns] = opCall[g].report]
          /\ namespacedPolicyReportsMutex' = Unlock(namespacedPolicyReportsMutex, g)
          /\ Return(g, NilResult)
    /\ UNCHANGED <<clusterPolicyReport, clusterPolicyReportMutex, storeOps>>

\* UpdatePolicyReport: the same statements as AddPolicyReport
UpdatePolicyReport(g) ==
    /\ opCall[g].name = "UpdatePolicyReport"
    /\ \/ /\ opPc[g] = "lock"
          /\ CanLock(namespacedPolicyReportsMutex)
          /\ namespacedPolicyReportsMutex' = Lock(namespacedPolicyReportsMutex, g)
          /\ opPc' = [opPc EXCEPT ![g] = "cs"]
          /\ UNCHANGED <<namespacedPolicyReports, opCall, opResult, lastPut>>
       \/ /\ opPc[g] = "cs"
          /\ namespacedPolicyReports' =
                MapAssign(namespacedPolicyReports, ReportNamespace(opCall[g].report),
                          opCall[g].report)
          /\ lastPut' = [lastPut EXCEPT ![opCall[g].ns] = opCall[g].report]
          /\ namespacedPolicyReportsMutex' = Unlock(namespacedPolicyReportsMutex, g)
          /\ Return(g, NilResult)
    /\ UNCHANGED <<clusterPolicyReport, clusterPolicyReportMutex, storeOps>>

\* AddClusterPolicyReport: the cluster report is overwritten under its mutex
AddClusterPolicyReport(g) ==
    /\ opCall[g].name = "AddClusterPolicyReport"
    /\ \/ /\ opPc[g] = "lock"
          /\ CanLock(clusterPolicyReportMutex)
          /\ clusterPolicyReportMutex' = Lock(clusterPolicyReportMutex, g)
          /\ opPc' = [opPc EXCEPT ![g] = "cs"]
          /\ UNCHANGED <<clusterPolicyReport, opCall, opResult, lastPut>>
       \/ /\ opPc[g] = "cs"
          /\ clusterPolicyReport' = opCall[g].report
          /\ lastPut' = [lastPut EXCEPT !["cluster"] = opCall[g].report]
          /\ clusterPolicyReportMutex' = Unlock(clusterPolicyReportMutex, g)
          /\ Return(g, NilResult)
    /\ UNCHANGED <<namespacedPolicyReports, namespacedPolicyReportsMutex, storeOps>>

\* UpdateClusterPolicyReport: the same statements as AddClusterPolicyReport
UpdateClusterPolicyReport(g) ==
    /\ opCall[g].name = "UpdateClusterPolicyReport"
    /\ \/ /\ opPc[g] = "lock"
          /\ CanLock(clusterPolicyReportMutex)
          /\ clusterPolicyReportMutex' = Lock(clusterPolicyReportMutex, g)
          /\ opPc' = [opPc EXCEPT ![g] = "cs"]
          /\ UNCHANGED <<clusterPolicyReport, opCall, opResult, lastPut>>
       \/ /\ opPc[g] = "cs"
          /\ clusterPolicyReport' = opCall[g].report
          /\ lastPut' = [lastPut EXCEPT !["cluster"] = opCall[g].report]
          /\ clusterPolicyReportMutex' = Unlock(clusterPolicyReportMutex, g)
          /\ Return(g, NilResult)
    /\ UNCHANGED <<namespacedPolicyReports, namespacedPolicyReportsMutex, storeOps>>

\* GetPolicyReport: RLock, defer RUnlock, the lookup and its two returns
GetPolicyReport(g) ==
    /\ opCall[g].name = "GetPolicyReport"
    /\ \/ /\ opPc[g] = "lock"
          /\ CanRLock(namespacedPolicyReportsMutex)
          /\ namespacedPolicyReportsMutex' = RLock(namespacedPolicyReportsMutex, g)
          /\ opPc' = [opPc EXCEPT ![g] = "cs"]
          /\ UNCHANGED <<opCall, opResult>>
       \/ /\ opPc[g] = "cs"
          /\ namespacedPolicyReportsMutex' = RUnlock(namespacedPolicyReportsMutex, g)
          /\ Return(g, LookupPolicyReport(namespacedPolicyReports, opCall[g].ns))
    /\ UNCHANGED <<namespacedPolicyReports, clusterPolicyReport,
                   clusterPolicyReportMutex, storeOps, lastPut>>

\* GetClusterPolicyReport: a copy of the cluster report and a nil error
GetClusterPolicyReport(g) ==
    /\ opCall[g].name = "GetClusterPolicyReport"
    /\ \/ /\ opPc[g] = "lock"
          /\ CanRLock(clusterPolicyReportMutex)
          /\ clusterPolicyReportMutex' = RLock(clusterPolicyReportMutex, g)
          /\ opPc' = [opPc EXCEPT ![g] = "cs"]
          /\ UNCHANGED <<opCall, opResult>>
       \/ /\ opPc[g] = "cs"
          /\ clusterPolicyReportMutex' = RUnlock(clusterPolicyReportMutex, g)
          /\ Return(g, Result(clusterPolicyReport, "nil"))
    /\ UNCHANGED <<namespacedPolicyReports, clusterPolicyReport,
                   namespacedPolicyReportsMutex, storeOps, lastPut>>

\* RemovePolicyReport: GetPolicyReport(namespace) takes and releases the read
\* lock; if it found the report, Lock, defer Unlock, delete; return nil
RemovePolicyReport(g) ==
    /\ opCall[g].name = "RemovePolicyReport"
    /\ \/ /\ opPc[g] = "lock"
          /\ CanRLock(namespacedPolicyReportsMutex)
          /\ namespacedPolicyReportsMutex' = RLock(namespacedPolicyReportsMutex, g)
          /\ opPc' = [opPc EXCEPT ![g] = "cs"]
          /\ UNCHANGED <<namespacedPolicyReports, opCall, opResult, lastPut>>
       \/ /\ opPc[g] = "cs"
          /\ namespacedPolicyReportsMutex' = RUnlock(namespacedPolicyReportsMutex, g)
          /\ IF LookupPolicyReport(namespacedPolicyReports, opCall[g].ns).err = "nil"
             THEN /\ opPc' = [opPc EXCEPT ![g] = "lock2"]
                  /\ UNCHANGED <<opCall, opResult>>
             ELSE Return(g, NilResult)
          /\ UNCHANGED <<namespacedPolicyReports, lastPut>>
       \/ /\ opPc[g] = "lock2"
          /\ CanLock(namespacedPolicyReportsMutex)
          /\ namespacedPolicyReportsMutex' = Lock(namespacedPolicyReportsMutex, g)
          /\ opPc' = [opPc EXCEPT ![g] = "cs2"]
          /\ UNCHANGED <<namespacedPolicyReports, opCall, opResult, lastPut>>
       \/ /\ opPc[g] = "cs2"
          /\ namespacedPolicyReports' = MapDelete(namespacedPolicyReports, opCall[g].ns)
          /\ lastPut' = [lastPut EXCEPT ![opCall[g].ns] = RemovedReport]
          /\ namespacedPolicyReportsMutex' = Unlock(namespacedPolicyReportsMutex, g)
          /\ Return(g, NilResult)
    /\ UNCHANGED <<clusterPolicyReport, clusterPolicyReportMutex, storeOps>>

\* RemoveAllNamespacedPolicyReports: the map is replaced by a new one
RemoveAllNamespacedPolicyReports(g) ==
    /\ opCall[g].name = "RemoveAllNamespacedPolicyReports"
    /\ \/ /\ opPc[g] = "lock"
          /\ CanLock(namespacedPolicyReportsMutex)
          /\ namespacedPolicyReportsMutex' = Lock(namespacedPolicyReportsMutex, g)
          /\ opPc' = [opPc EXCEPT ![g] = "cs"]
          /\ UNCHANGED <<namespacedPolicyReports, opCall, opResult, lastPut>>
       \/ /\ opPc[g] = "cs"
          /\ namespacedPolicyReports' = MakeMap
          /\ lastPut' = [n \in DOMAIN lastPut |->
                            IF n = "cluster" \/ lastPut[n] = NoReport THEN lastPut[n]
                            ELSE RemovedReport]
          /\ namespacedPolicyReportsMutex' = Unlock(namespacedPolicyReportsMutex, g)
          /\ Return(g, NilResult)
    /\ UNCHANGED <<clusterPolicyReport, clusterPolicyReportMutex, storeOps>>

\* ToJSON: s.clusterPolicyReport is copied into recapJSON and json.Marshal
\* walks s.namespacedPolicyReports, neither under a mutex. A copy made while
\* another goroutine assigns the cluster report may be torn; a walk of the map
\* made while another goroutine writes it may end the process.
ToJSON(g) ==
    /\ opCall[g].name = "ToJSON"
    /\ \/ /\ opPc[g] = "tjCluster"
          /\ \E torn \in BOOLEAN :
                /\ torn => \E q \in Goroutines \ {g} : WritesCluster(q)
                /\ opResult' = [opResult EXCEPT ![g] =
                                   Result(CacheReport("", IF torn THEN "torn json" ELSE "json"),
                                          "nil")]
          /\ opPc' = [opPc EXCEPT ![g] = "tjNamespaces"]
          /\ UNCHANGED opCall
       \/ /\ opPc[g] = "tjNamespaces"
          /\ \E fatal \in BOOLEAN :
                /\ fatal => \E q \in Goroutines \ {g} : WritesNamespaced(q)
                /\ IF fatal
                   THEN /\ opPc' = [opPc EXCEPT ![g] = "fatal"]
                        /\ UNCHANGED <<opCall, opResult>>
                   ELSE Return(g, opResult[g])
    /\ UNCHANGED <<namespacedPolicyReports, clusterPolicyReport,
                   namespacedPolicyReportsMutex, clusterPolicyReportMutex,
                   storeOps, lastPut>>

\* the report a goroutine saves
StoreSaveReport == <<Entry("p-none", "pass")>>

\* a goroutine calls Save
SaveCall(g) ==
    /\ opPc[g] = "idle"
    /\ storeOps < MaxOps
    /\ savePc = "idle"
    /\ storeOps' = storeOps + 1
    /\ opCall' = [opCall EXCEPT ![g] = Call("Save", "none", NoReport)]
    /\ opPc' = [opPc EXCEPT ![g] = "save"]
    /\ opResult' = [opResult EXCEPT ![g] = NilResult]
    /\ SaveBegin("pod1", StoreSaveReport, 0)
    /\ saveHist' = CleanHist
    /\ UNCHANGED <<repo, extOps, saveNo, exhausted>>
    /\ UNCHANGED <<namespacedPolicyReports, clusterPolicyReport,
                   namespacedPolicyReportsMutex, clusterPolicyReportMutex, lastPut>>

\* Save returns to the goroutine
SaveReturn(g) ==
    /\ opPc[g] = "save"
    /\ savePc = "done"
    /\ Return(g, Result(NoReport, saveRet))
    /\ SaveEnd
    /\ saveHist' = CleanHist
    /\ UNCHANGED <<repo, extOps, saveNo, exhausted>>
    /\ UNCHANGED <<namespacedPolicyReports, clusterPolicyReport,
                   namespacedPolicyReportsMutex, clusterPolicyReportMutex,
                   storeOps, lastPut>>

\* two goroutines in Save: nothing started
ConcIdle ==
    /\ rcPc = <<>>
    /\ rcReport = <<>>
    /\ rcRV = <<>>
    /\ rcAttempt = <<>>
    /\ rcRet = <<>>
    /\ rcLog = <<>>

-----------------------------------------------------------------------------
(* Initial values of the parts a specification does not exercise *)

NoPolicy == [name |-> "none", selector |-> NilSelector]
NoResource == Res("none", "none", "none", <<>>)

MatchIdle ==
    /\ mPc = "idle"
    /\ mPolicy = NoPolicy
    /\ mResource = NoResource
    /\ mResult = [matches |-> FALSE, err |-> FALSE]

SaveIdle ==
    /\ savePc = "idle"
    /\ saveTarget = "none"
    /\ saveReport = <<>>
    /\ reportRV = 0
    /\ resultRV = 0
    /\ getObjRV = 0
    /\ attempt = 0
    /\ lastErr = "none"
    /\ saveRet = "none"
    /\ saveLog = {}
    /\ firstGet = "none"
    /\ extOps = 0
    /\ updSent = NoUpdate
    /\ saveCalls = {}
    /\ saveNo = 0
    /\ saveHist = CleanHist
    /\ exhausted = {}

ScanIdle ==
    /\ mode = "none"
    /\ scanPc = "idle"
    /\ nsTodo = <<>>
    /\ curNs = "none"
    /\ gvrTodo = {}
    /\ curGvr = "none"
    /\ resTodo = <<>>
    /\ curRes = NoResource
    /\ polIdx = 0
    /\ report = <<>>
    /\ auditResponse = "none"
    /\ retErr = {}
    /\ listErr = FALSE
    /\ nsScans = [n \in Namespaces |-> 0]
    /\ nsResult = [n \in Namespaces |-> "none"]
    /\ evalCalls = <<>>
    /\ reconciles = <<>>
    /\ scanLog = {}
    /\ cancelled = FALSE
    /\ catalog = [gvr \in {} |-> <<>>]

-----------------------------------------------------------------------------
(* Save exercised alone: a caller saves reports of one resource in succession *)

HarnessTarget == "pod1"
HarnessReports ==
    {<<>>, <<Entry("p-none", "pass")>>, <<Entry("p-sel", "fail")>>,
     <<Entry("p-none", "pass"), Entry("p-sel", "fail")>>}

InitSave ==
    /\ MatchIdle
    /\ ScanIdle
    /\ SaveIdle
    /\ StoreIdle
    /\ ConcIdle
    /\ \E o \in {Absent, Stored(1, ForeignEntries)} :
          repo = [n \in ResourceNames |-> IF n = HarnessTarget THEN o ELSE Absent]

\* the caller passes a report to Save: a new object, or the object of its
\* previous call (which the client has filled with the stored version)
HarnessSave ==
    /\ savePc \in {"idle", "done"}
    /\ saveNo < MaxSaves
    /\ saveNo' = saveNo + 1
    /\ \E entries \in HarnessReports, fresh \in BOOLEAN :
          /\ saveNo = 0 => fresh
          /\ SaveBegin(HarnessTarget, entries, IF fresh THEN 0 ELSE reportRV)
    /\ saveHist' = IF saveNo = 0 THEN CleanHist
                   ELSE [saveHist EXCEPT !.prev = saveReport]
    /\ UNCHANGED <<repo, extOps, exhausted>>

NextSave ==
    \/ HarnessSave /\ UNCHANGED <<matchVars, storeVars, concVars, scanVars>>
    \/ SaveFirstGet /\ UNCHANGED <<matchVars, storeVars, concVars, scanVars, saveNo>>
    \/ SaveCreate /\ UNCHANGED <<matchVars, storeVars, concVars, scanVars, saveNo>>
    \/ SaveLoopGet /\ UNCHANGED <<matchVars, storeVars, concVars, scanVars, saveNo>>
    \/ SaveUpdate /\ UNCHANGED <<matchVars, storeVars, concVars, scanVars, saveNo>>
    \/ ExternalUpdate(HarnessTarget) /\ UNCHANGED <<matchVars, storeVars, concVars, scanVars, saveNo>>
    \/ ExternalDelete(HarnessTarget) /\ UNCHANGED <<matchVars, storeVars, concVars, scanVars, saveNo>>
    \/ ExternalCreate(HarnessTarget) /\ UNCHANGED <<matchVars, storeVars, concVars, scanVars, saveNo>>

SpecSave == InitSave /\ [][NextSave]_vars

\* Save is a sequential function: it reaches its next statement, each call
\* to the repository returns, and the backoff between two attempts is finite
SaveStep ==
    /\ SaveFirstGet \/ SaveCreate \/ SaveLoopGet \/ SaveUpdate
    /\ UNCHANGED <<matchVars, storeVars, concVars, scanVars, saveNo>>

\* one call of Save, begun, with the other writers of the repository
InitSaveOnce ==
    /\ MatchIdle
    /\ ScanIdle
    /\ StoreIdle
    /\ ConcIdle
    /\ \E o \in {Absent, Stored(1, ForeignEntries)} :
          repo = [n \in ResourceNames |-> IF n = HarnessTarget THEN o ELSE Absent]
    /\ savePc = "get1"
    /\ saveTarget = HarnessTarget
    /\ saveReport \in HarnessReports
    /\ reportRV = 0
    /\ resultRV = 0
    /\ getObjRV = 0
    /\ attempt = 0
    /\ lastErr = "none"
    /\ saveRet = "none"
    /\ saveLog = {}
    /\ firstGet = "none"
    /\ extOps = 0
    /\ updSent = NoUpdate
    /\ saveCalls = {}
    /\ saveNo = 1
    /\ saveHist = CleanHist
    /\ exhausted = {}

NextSaveOnce ==
    \/ SaveStep
    \/ ExternalUpdate(HarnessTarget) /\ UNCHANGED <<matchVars, storeVars, concVars, scanVars, saveNo>>
    \/ ExternalDelete(HarnessTarget) /\ UNCHANGED <<matchVars, storeVars, concVars, scanVars, saveNo>>
    \/ ExternalCreate(HarnessTarget) /\ UNCHANGED <<matchVars, storeVars, concVars, scanVars, saveNo>>

SpecSaveFair == InitSaveOnce /\ [][NextSaveOnce]_vars /\ WF_vars(SaveStep)

-----------------------------------------------------------------------------
(* policyMatches exercised alone on every policy and resource of the bounds *)

InitMatch ==
    /\ SaveIdle
    /\ ScanIdle
    /\ StoreIdle
    /\ ConcIdle
    /\ repo = [n \in ResourceNames |-> Absent]
    /\ mPc = "call"
    /\ mPolicy \in [name : {"p"}, selector : Selectors]
    /\ mResource \in {Res("r", "ns1", "pods", l) : l \in LabelSets}
    /\ mResult = [matches |-> FALSE, err |-> FALSE]

CallPolicyMatches ==
    /\ mPc = "call"
    /\ mResult' = policyMatches(mPolicy, mResource)
    /\ mPc' = "done"
    /\ UNCHANGED <<mPolicy, mResource, saveVars, harnessVars, scanVars, storeVars, concVars>>

NextMatch == CallPolicyMatches

SpecMatch == InitMatch /\ [][NextMatch]_vars

-----------------------------------------------------------------------------
(* The scanner: ScanAllNamespaces, ScanNamespace, auditResource *)

\* the policies bound to the resource type under way: the value of the range
\* over PoliciesByGVR, of the namespace or of the cluster-wide catalog
CurPolicies == IF mode = "cluster" THEN catalog[curGvr] ELSE PoliciesByGVR(curNs)[curGvr]

\* ScanNamespace returns e ("none" for nil) to its caller: the command for a
\* single-namespace scan, the loop of ScanAllNamespaces otherwise, which logs
\* the error, joins it to err and goes on with the next namespace
ScanNamespaceReturns(e) ==
    /\ nsResult' = [nsResult EXCEPT ![curNs] = IF e = "none" THEN "ok" ELSE "err"]
    /\ IF mode = "all"
       THEN /\ scanPc' = "nsLoop"
            /\ retErr' = IF e # "none" THEN retErr \cup {<<curNs, e>>} ELSE retErr
            /\ scanLog' = IF e # "none" THEN scanLog \cup {"error scanning namespace"}
                          ELSE scanLog
       ELSE /\ scanPc' = "returned"
            /\ retErr' = IF e # "none" THEN {<<curNs, e>>} ELSE {}
            /\ scanLog' = scanLog

\* ScanAllNamespaces: GetAuditedNamespaces. Its error is only logged; the
\* list returned with an error is nil, or an empty list.
ListNamespaces ==
    /\ scanPc = "start"
    /\ mode = "all"
    /\ \E ok \in BOOLEAN, nilList \in BOOLEAN :
          /\ ok => ~nilList
          /\ listErr' = ~ok
          /\ retErr' = IF ok THEN {} ELSE {<<"all", "list namespaces">>}
          /\ scanLog' = IF ok THEN scanLog ELSE scanLog \cup {"error scanning all namespaces"}
          /\ nsTodo' = IF ok THEN AuditedNamespaces ELSE <<>>
          \* nsList.Items of a nil list
          /\ scanPc' = IF nilList THEN "panicked" ELSE "nsLoop"
    /\ UNCHANGED <<mode, cancelled, catalog, curNs, gvrTodo, curGvr, resTodo, curRes, polIdx, report,
                   auditResponse, nsScans, nsResult, evalCalls, reconciles>>

\* ScanAllNamespaces: the loop over nsList.Items and the final return err
NextNamespace ==
    /\ scanPc = "nsLoop"
    /\ IF nsTodo = <<>>
       THEN /\ scanPc' = "returned"
            /\ scanLog' = scanLog \cup {"all-namespaces scan finished"}
            /\ UNCHANGED <<nsTodo, curNs, nsScans>>
       ELSE /\ curNs' = Head(nsTodo)
            /\ nsTodo' = Tail(nsTodo)
            /\ nsScans' = [nsScans EXCEPT ![Head(nsTodo)] = @ + 1]
            /\ scanPc' = "getNamespace"
            /\ scanLog' = scanLog
    /\ UNCHANGED <<mode, cancelled, catalog, gvrTodo, curGvr, resTodo, curRes, polIdx, report,
                   auditResponse, retErr, listErr, nsResult, evalCalls, reconciles>>

\* the command calls ScanNamespace for the namespace asked
StartNamespace ==
    /\ scanPc = "start"
    /\ mode = "namespace"
    /\ nsScans' = [nsScans EXCEPT ![curNs] = @ + 1]
    /\ scanPc' = "getNamespace"
    /\ UNCHANGED <<mode, cancelled, catalog, nsTodo, curNs, gvrTodo, curGvr, resTodo, curRes, polIdx,
                   report, auditResponse, retErr, listErr, nsResult, evalCalls,
                   reconciles, scanLog>>

\* ScanNamespace: s.k8sClient.GetNamespace
GetNamespace ==
    /\ scanPc = "getNamespace"
    /\ \E ok \in BOOLEAN :
          IF ok
          THEN /\ scanPc' = "getPolicies"
               /\ UNCHANGED <<nsResult, retErr, scanLog>>
          ELSE ScanNamespaceReturns("get namespace")
    /\ UNCHANGED <<mode, cancelled, catalog, nsTodo, curNs, gvrTodo, curGvr, resTodo, curRes, polIdx,
                   report, auditResponse, listErr, nsScans, evalCalls, reconciles>>

\* ScanNamespace: s.policiesClient.GetPoliciesForANamespace
GetPolicies ==
    /\ scanPc = "getPolicies"
    /\ \E ok \in BOOLEAN :
          IF ok
          THEN /\ scanPc' = "gvrLoop"
               /\ gvrTodo' = DOMAIN PoliciesByGVR(curNs)
               /\ UNCHANGED <<nsResult, retErr, scanLog>>
          ELSE /\ ScanNamespaceReturns("get policies")
               /\ UNCHANGED gvrTodo
    /\ UNCHANGED <<mode, cancelled, catalog, nsTodo, curNs, curGvr, resTodo, curRes, polIdx, report,
                   auditResponse, listErr, nsScans, evalCalls, reconciles>>

\* ScanNamespace: the range over PoliciesByGVR (a map: any order) and
\* s.k8sClient.GetResources; return nil after the last type
NextGVR ==
    /\ scanPc = "gvrLoop"
    /\ IF gvrTodo = {}
       THEN /\ ScanNamespaceReturns("none")
            /\ UNCHANGED <<gvrTodo, curGvr, resTodo>>
       ELSE \E gvr \in gvrTodo, ok \in BOOLEAN :
               /\ gvrTodo' = gvrTodo \ {gvr}
               /\ curGvr' = gvr
               /\ IF ok
                  THEN /\ resTodo' = ResourcesOf(curNs, gvr)
                       /\ scanPc' = "listItems"
                       /\ UNCHANGED <<nsResult, retErr, scanLog>>
                  ELSE /\ ScanNamespaceReturns("get resources")
                       /\ UNCHANGED resTodo
    /\ UNCHANGED <<mode, cancelled, catalog, nsTodo, curNs, curRes, polIdx, report, auditResponse,
                   listErr, nsScans, evalCalls, reconciles>>

\* ScanNamespace: pager.EachListItem. A page fetch or the conversion of an
\* item may fail, which ends ScanNamespace with that error; otherwise the
\* callback calls auditResource on the next item (NewPolicyReport(resource)).
NextResource ==
    /\ scanPc = "listItems"
    /\ \E outcome \in {"item", "end", "list error", "convert error"} :
          /\ outcome = "item" => resTodo # <<>>
          /\ outcome = "convert error" => resTodo # <<>>
          /\ outcome = "end" => resTodo = <<>>
          /\ CASE outcome = "item" ->
                    /\ curRes' = Head(resTodo)
                    /\ resTodo' = Tail(resTodo)
                    /\ report' = <<>>
                    /\ polIdx' = 1
                    /\ scanPc' = "match"
                    /\ UNCHANGED <<nsResult, retErr, scanLog>>
               [] outcome = "end" ->
                    /\ scanPc' = "gvrLoop"
                    /\ UNCHANGED <<curRes, resTodo, report, polIdx, nsResult, retErr, scanLog>>
               [] OTHER ->
                    /\ ScanNamespaceReturns(outcome)
                    /\ UNCHANGED <<curRes, resTodo, report, polIdx>>
    /\ UNCHANGED <<mode, cancelled, catalog, nsTodo, curNs, gvrTodo, curGvr, auditResponse, listErr,
                   nsScans, evalCalls, reconciles>>

\* the loop without its "if !matches { continue }"
AuditNextIgnoresMatch(m) == "eval"

\* auditResource: what the loop does with (matches, err) of policyMatches:
\* the error is logged, a policy that does not match is skipped
AuditNext(m) == IF m.matches THEN "eval" ELSE "skip"

\* auditResource: the head of the loop over the policies and policyMatches
MatchPolicy ==
    /\ scanPc = "match"
    /\ IF polIdx > Len(CurPolicies)
       THEN /\ scanPc' = "reconcile"
            /\ UNCHANGED <<polIdx, scanLog>>
       ELSE LET m == policyMatches(CurPolicies[polIdx], curRes) IN
            /\ scanLog' = IF m.err THEN scanLog \cup {"error matching policy to resource"}
                          ELSE scanLog
            /\ IF AuditNext(m) = "eval"
               THEN scanPc' = "eval" /\ polIdx' = polIdx
               ELSE scanPc' = "match" /\ polIdx' = polIdx + 1
    /\ UNCHANGED <<mode, cancelled, catalog, nsTodo, curNs, gvrTodo, curGvr, resTodo, curRes, report,
                   auditResponse, retErr, listErr, nsScans, nsResult, evalCalls,
                   reconciles>>

\* sendAdmissionReviewToPolicyServer: every failure (the request, the body,
\* the status, the JSON) returns (nil, err); a body that parses returns the
\* review, whose Response may be absent
EvalOutcomes == {"allowed", "denied", "no response", "error"}

\* auditResource: the evaluator call
SendAdmissionReview ==
    /\ scanPc = "eval"
    /\ evalCalls' = Append(evalCalls, <<curRes.name, CurPolicies[polIdx].name>>)
    /\ \E outcome \in EvalOutcomes :
          \* the request carries ctx: httpClient.Do fails once it is cancelled
          /\ cancelled => outcome = "error"
          /\ auditResponse' = IF outcome = "error" THEN "nil" ELSE outcome
    /\ scanPc' = "fold"
    /\ UNCHANGED <<mode, cancelled, catalog, nsTodo, curNs, gvrTodo, curGvr, resTodo, curRes, polIdx,
                   report, retErr, listErr, nsScans, nsResult, reconciles, scanLog>>

\* the reads of the review after the call: auditResponse.Response.UID in the
\* debug log of a call without error, auditResponse.Response in the argument
\* of AddResultToPolicyReport. Reading through a nil pointer panics.
ResponseReadable(review) == review \notin {"nil", "no response"}

\* auditResource: errored is set from responseErr, the outcome is logged and
\* report.AddResultToPolicyReport(policyreport, policy,
\* auditResponse.Response, errored) adds the entry
AddResult ==
    /\ scanPc = "fold"
    /\ scanLog' = IF auditResponse = "nil"
                  THEN scanLog \cup {"error sending AdmissionReview to PolicyServer"}
                  ELSE scanLog
    /\ IF ResponseReadable(auditResponse)
       THEN /\ report' = Append(report,
                   Entry(CurPolicies[polIdx].name,
                         IF auditResponse = "allowed" THEN "pass" ELSE "fail"))
            /\ polIdx' = polIdx + 1
            /\ scanPc' = "match"
       ELSE /\ scanPc' = "panicked"
            /\ UNCHANGED <<report, polIdx>>
    /\ UNCHANGED <<mode, cancelled, catalog, nsTodo, curNs, gvrTodo, curGvr, resTodo, curRes,
                   auditResponse, retErr, listErr, nsScans, nsResult, evalCalls,
                   reconciles>>

\* auditResource: the report of the resource is handed to the store
Reconcile ==
    /\ scanPc = "reconcile"
    /\ SaveBegin(curRes.name, report, 0)
    /\ reconciles' = Append(reconciles, curRes.name)
    /\ scanPc' = "waitSave"
    /\ saveHist' = CleanHist
    /\ UNCHANGED <<repo, extOps, saveNo, exhausted>>
    /\ UNCHANGED <<mode, cancelled, catalog, nsTodo, curNs, gvrTodo, curGvr, resTodo, curRes, polIdx,
                   report, auditResponse, retErr, listErr, nsScans, nsResult,
                   evalCalls, scanLog>>

\* a callback that returns the store's error to the pager
CallbackResultPropagates(storeErr) == IF storeErr = "nil" THEN "none" ELSE storeErr

\* the callback of EachListItem after the conversion: auditResource returns
\* nothing, whatever the store returned, and the callback returns nil
CallbackResult(storeErr) == "none"

\* auditResource: the store returns and its error is logged; the callback
\* returns, and the pager stops the listing if it returned an error
ReconcileReturns ==
    /\ scanPc = "waitSave"
    /\ savePc = "done"
    /\ IF CallbackResult(saveRet) = "none"
       THEN /\ scanPc' = "listItems"
            /\ scanLog' = IF saveRet # "nil"
                          THEN scanLog \cup {"error adding PolicyReport to store"}
                          ELSE scanLog
            /\ UNCHANGED <<nsResult, retErr>>
       ELSE ScanNamespaceReturns(CallbackResult(saveRet))
    /\ SaveEnd
    /\ saveHist' = CleanHist
    /\ UNCHANGED <<repo, extOps, exhausted>>
    /\ UNCHANGED <<mode, cancelled, catalog, nsTodo, curNs, gvrTodo, curGvr, resTodo, curRes, polIdx,
                   report, auditResponse, listErr, nsScans, evalCalls, reconciles>>

-----------------------------------------------------------------------------
(* The scan of one namespace or of all namespaces, with the store's Save and
   the other writers of the repository *)

Init ==
    /\ MatchIdle
    /\ SaveIdle
    /\ \E o \in {Absent, Stored(1, ForeignEntries)} : repo = [n \in ResourceNames |-> o]
    /\ mode \in {"namespace", "all"}
    /\ curNs \in IF mode = "namespace" THEN Namespaces ELSE {"none"}
    /\ scanPc = "start"
    /\ nsTodo = <<>>
    /\ gvrTodo = {}
    /\ curGvr = "none"
    /\ resTodo = <<>>
    /\ curRes = NoResource
    /\ polIdx = 0
    /\ report = <<>>
    /\ auditResponse = "none"
    /\ retErr = {}
    /\ listErr = FALSE
    /\ nsScans = [n \in Namespaces |-> 0]
    /\ nsResult = [n \in Namespaces |-> "none"]
    /\ evalCalls = <<>>
    /\ reconciles = <<>>
    /\ scanLog = {}
    /\ cancelled = FALSE
    /\ catalog = [gvr \in {} |-> <<>>]
    /\ StoreIdle
    /\ ConcIdle

\* the reports other writers touch, while the store is saving them
ContendedReports == {"pod1"}
Contended == SaveRunning /\ saveTarget \in ContendedReports

scanOnly == <<matchVars, saveVars, harnessVars, storeVars, concVars>>
saveOnly == <<matchVars, scanVars, saveNo, storeVars, concVars>>

Next ==
    \/ ListNamespaces /\ UNCHANGED scanOnly
    \/ NextNamespace /\ UNCHANGED scanOnly
    \/ StartNamespace /\ UNCHANGED scanOnly
    \/ GetNamespace /\ UNCHANGED scanOnly
    \/ GetPolicies /\ UNCHANGED scanOnly
    \/ NextGVR /\ UNCHANGED scanOnly
    \/ NextResource /\ UNCHANGED scanOnly
    \/ MatchPolicy /\ UNCHANGED scanOnly
    \/ SendAdmissionReview /\ UNCHANGED scanOnly
    \/ AddResult /\ UNCHANGED scanOnly
    \/ Reconcile /\ UNCHANGED <<matchVars, storeVars, concVars>>
    \/ ReconcileReturns /\ UNCHANGED <<matchVars, saveNo, storeVars, concVars>>
    \/ SaveFirstGet /\ UNCHANGED saveOnly
    \/ SaveCreate /\ UNCHANGED saveOnly
    \/ SaveLoopGet /\ UNCHANGED saveOnly
    \/ SaveUpdate /\ UNCHANGED saveOnly
    \/ Contended /\ ExternalUpdate(saveTarget) /\ UNCHANGED saveOnly
    \/ Contended /\ ExternalDelete(saveTarget) /\ UNCHANGED saveOnly
    \/ Contended /\ ExternalCreate(saveTarget) /\ UNCHANGED saveOnly

Spec == Init /\ [][Next]_vars

-----------------------------------------------------------------------------
(* The scan of the cluster-wide resources: ScanClusterWideResources,
   auditClusterResource *)

\* what GetClusterWidePolicies may return as PoliciesByGVR: no policy at
\* all, or policies bound to the nodes
NoCatalog == [gvr \in {} |-> <<>>]
ClusterCatalogs ==
    {NoCatalog, [gvr \in {"nodes"} |-> <<PNone>>], [gvr \in {"nodes"} |-> <<PSel, PNone>>]}

\* GetResources(gvr, ""): the cluster-wide resources of a type
ClusterResourcesOf(gvr) == IF gvr = "nodes" THEN <<Node1>> ELSE <<>>

\* ScanClusterWideResources returns e ("none" for nil)
ScanClusterWideReturns(e) ==
    /\ scanPc' = "returned"
    /\ retErr' = IF e # "none" THEN {<<"cluster", e>>} ELSE {}
    /\ scanLog' = IF e = "none" THEN scanLog \cup {"clusterwide resources scan finished"}
                  ELSE scanLog

\* ScanClusterWideResources: s.policiesClient.GetClusterWidePolicies
GetClusterWidePolicies ==
    /\ scanPc = "start"
    /\ mode = "cluster"
    /\ \E ok \in BOOLEAN :
          IF ok
          THEN /\ \E c \in ClusterCatalogs :
                     catalog' = c /\ gvrTodo' = DOMAIN c
               /\ scanPc' = "gvrLoop"
               /\ UNCHANGED <<retErr, scanLog>>
          ELSE /\ ScanClusterWideReturns("get policies")
               /\ UNCHANGED <<catalog, gvrTodo>>
    /\ UNCHANGED <<mode, cancelled, nsTodo, curNs, curGvr, resTodo, curRes, polIdx,
                   report, auditResponse, listErr, nsScans, nsResult, evalCalls,
                   reconciles>>

\* ScanClusterWideResources: the range over PoliciesByGVR and GetResources;
\* return nil after the last type
ClusterNextGVR ==
    /\ scanPc = "gvrLoop"
    /\ mode = "cluster"
    /\ IF gvrTodo = {}
       THEN /\ ScanClusterWideReturns("none")
            /\ UNCHANGED <<gvrTodo, curGvr, resTodo>>
       ELSE \E gvr \in gvrTodo, ok \in BOOLEAN :
               /\ gvrTodo' = gvrTodo \ {gvr}
               /\ curGvr' = gvr
               /\ IF ok
                  THEN /\ resTodo' = ClusterResourcesOf(gvr)
                       /\ scanPc' = "listItems"
                       /\ UNCHANGED <<retErr, scanLog>>
                  ELSE /\ ScanClusterWideReturns("get resources")
                       /\ UNCHANGED resTodo
    /\ UNCHANGED <<mode, cancelled, catalog, nsTodo, curNs, curRes, polIdx, report,
                   auditResponse, listErr, nsScans, nsResult, evalCalls, reconciles>>

\* ScanClusterWideResources: pager.EachListItem and its callback, which calls
\* auditClusterResource (NewClusterPolicyReport(resource)) on the next item
ClusterNextResource ==
    /\ scanPc = "listItems"
    /\ mode = "cluster"
    /\ \E outcome \in {"item", "end", "list error", "convert error"} :
          /\ outcome = "item" => resTodo # <<>>
          /\ outcome = "convert error" => resTodo # <<>>
          /\ outcome = "end" => resTodo = <<>>
          /\ CASE outcome = "item" ->
                    /\ curRes' = Head(resTodo)
                    /\ resTodo' = Tail(resTodo)
                    /\ report' = <<>>
                    /\ polIdx' = 1
                    /\ scanPc' = "match"
                    /\ UNCHANGED <<retErr, scanLog>>
               [] outcome = "end" ->
                    /\ scanPc' = "gvrLoop"
                    /\ UNCHANGED <<curRes, resTodo, report, polIdx, retErr, scanLog>>
               [] OTHER ->
                    /\ ScanClusterWideReturns(outcome)
                    /\ UNCHANGED <<curRes, resTodo, report, polIdx>>
    /\ UNCHANGED <<mode, cancelled, catalog, nsTodo, curNs, gvrTodo, curGvr,
                   auditResponse, listErr, nsScans, nsResult, evalCalls, reconciles>>

\* auditClusterResource repeats auditResource statement for statement on a
\* ClusterPolicyReport: the loop over the policies and policyMatches,
ClusterMatchPolicy == mode = "cluster" /\ MatchPolicy
\* the evaluator call,
ClusterSendAdmissionReview == mode = "cluster" /\ SendAdmissionReview
\* errored, the logs and AddResultToClusterPolicyReport,
ClusterAddResult == mode = "cluster" /\ AddResult
\* and the report handed to the store, whose error is only logged
ClusterReconcile == mode = "cluster" /\ Reconcile
ClusterReconcileReturns == mode = "cluster" /\ ReconcileReturns

InitCluster ==
    /\ MatchIdle
    /\ SaveIdle
    /\ StoreIdle
    /\ ConcIdle
    /\ \E o \in {Absent, Stored(1, ForeignEntries)} : repo = [n \in ResourceNames |-> o]
    /\ mode = "cluster"
    /\ scanPc = "start"
    /\ nsTodo = <<>>
    /\ curNs = "none"
    /\ gvrTodo = {}
    /\ curGvr = "none"
    /\ resTodo = <<>>
    /\ curRes = NoResource
    /\ polIdx = 0
    /\ report = <<>>
    /\ auditResponse = "none"
    /\ retErr = {}
    /\ listErr = FALSE
    /\ nsScans = [n \in Namespaces |-> 0]
    /\ nsResult = [n \in Namespaces |-> "none"]
    /\ evalCalls = <<>>
    /\ reconciles = <<>>
    /\ scanLog = {}
    /\ cancelled = FALSE
    /\ catalog = NoCatalog

NextCluster ==
    \/ GetClusterWidePolicies /\ UNCHANGED scanOnly
    \/ ClusterNextGVR /\ UNCHANGED scanOnly
    \/ ClusterNextResource /\ UNCHANGED scanOnly
    \/ ClusterMatchPolicy /\ UNCHANGED scanOnly
    \/ ClusterSendAdmissionReview /\ UNCHANGED scanOnly
    \/ ClusterAddResult /\ UNCHANGED scanOnly
    \/ ClusterReconcile /\ UNCHANGED <<matchVars, storeVars, concVars>>
    \/ ClusterReconcileReturns /\ UNCHANGED <<matchVars, saveNo, storeVars, concVars>>
    \/ SaveFirstGet /\ UNCHANGED saveOnly
    \/ SaveCreate /\ UNCHANGED saveOnly
    \/ SaveLoopGet /\ UNCHANGED saveOnly
    \/ SaveUpdate /\ UNCHANGED saveOnly

SpecCluster == InitCluster /\ [][NextCluster]_vars

\* C15: a cluster-wide scan that found no cluster-scoped policy returns no
\* error, has handed a cluster report without entries to the store, and a
\* cluster report exists in the repository afterwards.
C15_EmptyClusterReportReconciled ==
    (mode = "cluster" /\ scanPc = "returned" /\ retErr = {} /\ catalog = NoCatalog) =>
        /\ reconciles # <<>>
        /\ \E r \in Resources : r.ns = "" /\ repo[r.name].exists

-----------------------------------------------------------------------------
(* The scan of a namespace whose context is cancelled while it runs. The
   context reaches the evaluator request (http.NewRequestWithContext) and the
   pager; Save calls the repository with context.TODO(). *)

\* the caller cancels the context it gave to ScanNamespace
Cancel ==
    /\ ~cancelled
    /\ scanPc \notin {"idle", "returned", "panicked"}
    /\ cancelled' = TRUE
    /\ UNCHANGED <<mode, scanPc, nsTodo, curNs, gvrTodo, curGvr, resTodo, curRes,
                   polIdx, report, auditResponse, retErr, listErr, nsScans,
                   nsResult, evalCalls, reconciles, scanLog, catalog>>

InitCancel ==
    /\ Init
    /\ mode = "namespace"
    /\ curNs = "ns1"

NextCancel ==
    \/ Cancel /\ UNCHANGED scanOnly
    \/ StartNamespace /\ UNCHANGED scanOnly
    \/ GetNamespace /\ UNCHANGED scanOnly
    \/ GetPolicies /\ UNCHANGED scanOnly
    \/ NextGVR /\ UNCHANGED scanOnly
    \/ NextResource /\ UNCHANGED scanOnly
    \/ MatchPolicy /\ UNCHANGED scanOnly
    \/ SendAdmissionReview /\ UNCHANGED scanOnly
    \/ AddResult /\ UNCHANGED scanOnly
    \/ Reconcile /\ UNCHANGED <<matchVars, storeVars, concVars>>
    \/ ReconcileReturns /\ UNCHANGED <<matchVars, saveNo, storeVars, concVars>>
    \/ SaveFirstGet /\ UNCHANGED saveOnly
    \/ SaveCreate /\ UNCHANGED saveOnly
    \/ SaveLoopGet /\ UNCHANGED saveOnly
    \/ SaveUpdate /\ UNCHANGED saveOnly
    \/ Contended /\ ExternalUpdate(saveTarget) /\ UNCHANGED saveOnly

SpecCancel == InitCancel /\ [][NextCancel]_vars

\* C19: once the context of the scan is cancelled, no evaluator call gets an
\* answer, and Save reaches the repository no more: no lookup of Save finds
\* or misses the object, no Create or Update is applied, and no conflict is
\* retried.
C19_CancelStopsCalls ==
    [][cancelled =>
          /\ (scanPc = "eval" /\ scanPc' = "fold") => auditResponse' = "nil"
          /\ savePc' # savePc =>
                /\ repo' = repo
                /\ savePc' \notin {"create", "update"}
                /\ ~(savePc = "update" /\ savePc' = "loopGet")]_vars

-----------------------------------------------------------------------------
(* The store's cache called by concurrent goroutines, one of which may be in
   Save *)

InitStore ==
    /\ MatchIdle
    /\ ScanIdle
    /\ SaveIdle
    /\ StoreIdle
    /\ ConcIdle
    /\ \E o \in {Absent, Stored(1, ForeignEntries)} : repo = [n \in ResourceNames |-> o]

cacheOnly == <<matchVars, scanVars, saveVars, harnessVars, concVars>>

NextStore ==
    \/ \E g \in Goroutines : ~Crashed /\ GoCall(g) /\ UNCHANGED cacheOnly
    \/ \E g \in Goroutines : ~Crashed /\ AddPolicyReport(g) /\ UNCHANGED cacheOnly
    \/ \E g \in Goroutines : ~Crashed /\ UpdatePolicyReport(g) /\ UNCHANGED cacheOnly
    \/ \E g \in Goroutines : ~Crashed /\ AddClusterPolicyReport(g) /\ UNCHANGED cacheOnly
    \/ \E g \in Goroutines : ~Crashed /\ UpdateClusterPolicyReport(g) /\ UNCHANGED cacheOnly
    \/ \E g \in Goroutines : ~Crashed /\ GetPolicyReport(g) /\ UNCHANGED cacheOnly
    \/ \E g \in Goroutines : ~Crashed /\ GetClusterPolicyReport(g) /\ UNCHANGED cacheOnly
    \/ \E g \in Goroutines : ~Crashed /\ RemovePolicyReport(g) /\ UNCHANGED cacheOnly
    \/ \E g \in Goroutines : ~Crashed /\ RemoveAllNamespacedPolicyReports(g) /\ UNCHANGED cacheOnly
    \/ \E g \in Goroutines : ~Crashed /\ ToJSON(g) /\ UNCHANGED cacheOnly
    \/ \E g \in Goroutines : ~Crashed /\ SaveCall(g) /\ UNCHANGED <<matchVars, scanVars, concVars>>
    \/ \E g \in Goroutines : ~Crashed /\ SaveReturn(g) /\ UNCHANGED <<matchVars, scanVars, concVars>>
    \/ ~Crashed /\ SaveFirstGet /\ UNCHANGED saveOnly
    \/ ~Crashed /\ SaveCreate /\ UNCHANGED saveOnly
    \/ ~Crashed /\ SaveLoopGet /\ UNCHANGED saveOnly
    \/ ~Crashed /\ SaveUpdate /\ UNCHANGED saveOnly

SpecStore == InitStore /\ [][NextStore]_vars

-----------------------------------------------------------------------------
(* Two goroutines in Save with reports of the same name. The repository
   answers each call from its state: no other writer, no failing call. *)

Callers == {"a", "b"}
ConcTarget == "pod1"

InitConc ==
    /\ MatchIdle
    /\ ScanIdle
    /\ SaveIdle
    /\ StoreIdle
    /\ \E o \in {Absent, Stored(1, ForeignEntries)} :
          repo = [n \in ResourceNames |-> IF n = ConcTarget THEN o ELSE Absent]
    /\ rcPc = [c \in Callers |-> "get1"]
    /\ rcReport \in [Callers -> HarnessReports]
    /\ rcRV = [c \in Callers |-> 0]
    /\ rcAttempt = [c \in Callers |-> 0]
    /\ rcRet = [c \in Callers |-> "none"]
    /\ rcLog = [c \in Callers |-> {}]

\* the end of Save's else branch for caller c: retryErr is only logged
ConcSaveFinishRetry(c, retryErr) ==
    /\ rcLog' = [rcLog EXCEPT ![c] =
                    @ \cup (IF retryErr # "none" THEN {"PolicyReport update failed"} ELSE {})
                      \cup {"updated PolicyReport"}]
    /\ rcRet' = [rcRet EXCEPT ![c] = "nil"]
    /\ rcPc' = [rcPc EXCEPT ![c] = "done"]

\* s.client.Get(..., result) and the branch on IsNotFound(getErr)
ConcSaveFirstGet(c) ==
    /\ rcPc[c] = "get1"
    /\ LET getErr == IF repo[ConcTarget].exists THEN "none" ELSE "notFound" IN
       IF IsNotFound(getErr)
       THEN /\ rcPc' = [rcPc EXCEPT ![c] = "create"]
            /\ rcLog' = [rcLog EXCEPT ![c] = @ \cup {"creating policy report..."}]
            /\ UNCHANGED rcAttempt
       ELSE /\ rcPc' = [rcPc EXCEPT ![c] = "loopGet"]
            /\ rcLog' = [rcLog EXCEPT ![c] = @ \cup {"updating policy report..."}]
            /\ rcAttempt' = [rcAttempt EXCEPT ![c] = 1]
    /\ UNCHANGED <<repo, rcReport, rcRV, rcRet>>

\* s.client.Create(ctx, report): the repository refuses an object that exists
ConcSaveCreate(c) ==
    /\ rcPc[c] = "create"
    /\ rcPc' = [rcPc EXCEPT ![c] = "done"]
    /\ IF ~repo[ConcTarget].exists
       THEN /\ repo' = [repo EXCEPT ![ConcTarget] = Stored(NextVersion(ConcTarget), rcReport[c])]
            /\ rcRV' = [rcRV EXCEPT ![c] = NextVersion(ConcTarget)]
            /\ rcRet' = [rcRet EXCEPT ![c] = "nil"]
       ELSE /\ rcRet' = [rcRet EXCEPT ![c] = "failed when creating PolicyReport"]
            /\ UNCHANGED <<repo, rcRV>>
    /\ UNCHANGED <<rcReport, rcAttempt, rcLog>>

\* the closure's Get: not found returns nil and ends the retry
ConcSaveLoopGet(c) ==
    /\ rcPc[c] = "loopGet"
    /\ IF repo[ConcTarget].exists
       THEN /\ rcRV' = [rcRV EXCEPT ![c] = SetResourceVersion(repo[ConcTarget].version, rcRV[c])]
            /\ rcPc' = [rcPc EXCEPT ![c] = "update"]
            /\ UNCHANGED <<rcRet, rcLog>>
       ELSE /\ ConcSaveFinishRetry(c, "none")
            /\ UNCHANGED rcRV
    /\ UNCHANGED <<repo, rcReport, rcAttempt>>

\* the closure's Update and RetryOnConflict's decision
ConcSaveUpdate(c) ==
    /\ rcPc[c] = "update"
    /\ LET err == IF ~repo[ConcTarget].exists THEN "notFound"
                  ELSE IF repo[ConcTarget].version # rcRV[c] THEN "conflict"
                  ELSE "none" IN
       IF err = "none"
       THEN /\ repo' = [repo EXCEPT ![ConcTarget] =
                           Stored(NextVersion(ConcTarget),
                                  UpdatedEntries(repo[ConcTarget].entries, rcReport[c]))]
            /\ rcRV' = [rcRV EXCEPT ![c] = NextVersion(ConcTarget)]
            /\ ConcSaveFinishRetry(c, "none")
            /\ UNCHANGED rcAttempt
       ELSE /\ UNCHANGED <<repo, rcRV>>
            /\ IF IsConflict(err) /\ rcAttempt[c] < RetrySteps
               THEN /\ rcAttempt' = [rcAttempt EXCEPT ![c] = @ + 1]
                    /\ rcPc' = [rcPc EXCEPT ![c] = "loopGet"]
                    /\ UNCHANGED <<rcRet, rcLog>>
               ELSE /\ ConcSaveFinishRetry(c, err)
                    /\ UNCHANGED rcAttempt
    /\ UNCHANGED rcReport

concOnly == <<matchVars, scanVars, harnessVars, storeVars, savePc, saveTarget,
              saveReport, reportRV, resultRV, getObjRV, attempt, lastErr, saveRet,
              saveLog, firstGet, extOps, updSent, saveCalls>>

NextConc ==
    \/ \E c \in Callers : ConcSaveFirstGet(c) /\ UNCHANGED concOnly
    \/ \E c \in Callers : ConcSaveCreate(c) /\ UNCHANGED concOnly
    \/ \E c \in Callers : ConcSaveLoopGet(c) /\ UNCHANGED concOnly
    \/ \E c \in Callers : ConcSaveUpdate(c) /\ UNCHANGED concOnly

SpecConc == InitConc /\ [][NextConc]_vars

\* C11: when two concurrent Save calls for the same report have both
\* returned, both returned nil without a failed update logged, and the
\* persisted object holds the report of one of the two callers.
C11_NoResultLost ==
    (\A c \in Callers : rcPc[c] = "done") =>
        /\ \A c \in Callers :
              rcRet[c] = "nil" /\ "PolicyReport update failed" \notin rcLog[c]
        /\ repo[ConcTarget].exists
        /\ \E c \in Callers : repo[ConcTarget].entries = rcReport[c]

-----------------------------------------------------------------------------
(* Properties of the scan *)

Range(seq) == {seq[i] : i \in DOMAIN seq}
InNamespace(n, resName) == \E r \in Resources : r.name = resName /\ r.ns = n

\* evaluator calls and reconciliations issued so far for resources of namespace n
EvalsOf(n) == Len(SelectSeq(evalCalls, LAMBDA c : InNamespace(n, c[1])))
ReconcilesOf(n) == Len(SelectSeq(reconciles, LAMBDA c : InNamespace(n, c)))

\* entries a report holds for a policy
EntriesFor(rep, policyName) == {i \in DOMAIN rep : rep[i].policy = policyName}

\* C1: when the evaluator call of a matching (policy, resource) pair fails,
\* the audit records exactly one entry for the pair, marked errored, and goes
\* on with the next policy of the resource: the failure does not end the scan.
C1_EvaluatorFailureRecorded ==
    [][(scanPc = "fold" /\ auditResponse = "nil") =>
          /\ scanPc' = "match"
          /\ report' = Append(report, Entry(CurPolicies[polIdx].name, "error"))
          /\ polIdx' = polIdx + 1]_vars

\* C2: when an all-namespaces scan whose namespace list was fetched has
\* ended, every listed namespace was scanned exactly once and the error
\* returned joins exactly the errors of the namespaces whose scan failed.
C2_AllNamespacesScannedOnce ==
    (mode = "all" /\ ~listErr /\ scanPc \in {"returned", "panicked"}) =>
        /\ \A n \in Namespaces : nsScans[n] = 1
        /\ {e[1] : e \in retErr} = {n \in Namespaces : nsResult[n] = "err"}

EnumerationSteps == {"getNamespace", "getPolicies", "gvrLoop", "listItems"}

\* C3: ScanNamespace ends with an error only at the namespace lookup, the
\* policy fetch, GetResources or the listing, and returns that error; once it
\* has, no evaluator call, reconciliation or repository call is made for
\* that namespace.
C3_EnumerationFailureStopsScope ==
    [][\A n \in Namespaces :
          /\ (nsResult[n] # "err" /\ nsResult'[n] = "err") =>
                /\ curNs = n
                /\ scanPc \in EnumerationSteps
                /\ scanPc' \in {"nsLoop", "returned"}
                /\ \E e \in retErr' \ retErr :
                      e[1] = n /\ e[2] \in {"get namespace", "get policies", "get resources",
                                            "list error", "convert error"}
          /\ nsResult[n] = "err" =>
                /\ nsResult'[n] = "err"
                /\ EvalsOf(n)' = EvalsOf(n)
                /\ ReconcilesOf(n)' = ReconcilesOf(n)
                /\ (curNs' = n => savePc' = "idle" /\ scanPc' \in {"nsLoop", "returned"})]_vars

\* a listing failed after a resource of the namespace had been audited and
\* reconciled
C3_Witness ==
    /\ nsResult["ns1"] = "err"
    /\ <<"ns1", "list error">> \in retErr
    /\ ReconcilesOf("ns1") = 1
    /\ EvalsOf("ns1") = 2

\* C4: policyMatches returns (true, nil) for a policy without a selector,
\* whatever the labels of the resource.
C4_NoSelectorMatches ==
    (mPc = "done" /\ ~mPolicy.selector.present) =>
        mResult = [matches |-> TRUE, err |-> FALSE]

C4_Witness ==
    /\ mPc = "done"
    /\ ~mPolicy.selector.present
    /\ DOMAIN mResource.labels # {}
    /\ mResult.matches

Excluded(p, r) ==
    /\ p.selector.present
    /\ ~SelectorMalformed(p.selector)
    /\ ~SelectorMatches(p.selector, r.labels)

\* C5: for a resource and a policy whose selector does not match its labels,
\* policyMatches is false without error, no evaluator call is issued for the
\* pair, and neither the report of the resource nor the persisted report
\* holds an entry for the pair.
C5_ExcludedPairNotEvaluated ==
    \A r \in Resources, p \in Policies :
        Excluded(p, r) =>
            /\ policyMatches(p, r) = [matches |-> FALSE, err |-> FALSE]
            /\ <<r.name, p.name>> \notin Range(evalCalls)
            /\ (curRes = r => EntriesFor(report, p.name) = {})
            /\ EntriesFor(repo[r.name].entries, p.name) = {}

\* pod2 carries no label, p-sel selects app=a: the audit of pod2 went past
\* p-sel and its report was stored
C5_Witness ==
    /\ Excluded(PSel, Pod2)
    /\ "pod2" \in Range(reconciles)
    /\ repo["pod2"].exists
    /\ repo["pod2"].entries = <<Entry("p-none", "pass")>>

Malformed(p) == p.selector.present /\ SelectorMalformed(p.selector)

\* C6: for a policy whose selector is malformed, policyMatches returns false
\* with the error; the audit logs it, issues no evaluator call for the pair,
\* records nothing and goes on with the next policy of the same resource; the
\* scan does not fail.
C6_MalformedSelectorSkipped ==
    [][(\A r \in Resources, p \in Policies :
           Malformed(p) =>
              /\ policyMatches(p, r) = [matches |-> FALSE, err |-> TRUE]
              /\ <<r.name, p.name>> \notin Range(evalCalls'))
       /\ ((scanPc = "match" /\ polIdx <= Len(CurPolicies) /\ Malformed(CurPolicies[polIdx])) =>
              (/\ scanPc' = "match"
               /\ polIdx' = polIdx + 1
               /\ "error matching policy to resource" \in scanLog'
               /\ UNCHANGED <<report, evalCalls, reconciles, nsResult, retErr, curRes>>))]_vars

\* the policy after the malformed one was evaluated for pod1
C6_Witness ==
    /\ "error matching policy to resource" \in scanLog
    /\ <<"pod1", "p-sel">> \in Range(evalCalls)
    /\ <<"pod1", "p-bad">> \notin Range(evalCalls)

-----------------------------------------------------------------------------
(* Properties of Save *)

\* C7: Save issues Create only after a first lookup that found nothing and
\* Update only after one that did not say "not found"; without faults or
\* other writers a lookup that found the object is followed by an Update;
\* every Update carries the version returned by the Get of its own attempt.
C7_UpdateCarriesFreshToken ==
    /\ "Create" \in saveCalls => firstGet = "notFound" /\ "Update" \notin saveCalls
    /\ "Update" \in saveCalls => firstGet \in {"none", "error"}
    /\ (savePc = "done" /\ firstGet = "notFound") => "Create" \in saveCalls
    /\ (savePc = "done" /\ firstGet = "none" /\ ~saveHist.ext /\ ~saveHist.fault) =>
          "Update" \in saveCalls
    /\ updSent.n > 0 =>
          /\ updSent.token = updSent.getToken
          /\ updSent.attempt = updSent.getAttempt

\* an Update sent in a later attempt, after a conflict, with a token that is
\* not the one of the first lookup
C7_Witness ==
    /\ updSent.n > 0
    /\ updSent.attempt >= 2
    /\ updSent.token # resultRV
    /\ updSent.token = updSent.getToken

\* C8: an Update that succeeds, in the first attempt or after conflicts in
\* the attempts before it, ends Save with nil and no failure logged, and
\* leaves the report's entries persisted under a version above the one read.
C8_SuccessAfterConflicts ==
    [][(savePc = "update" /\ savePc' = "done" /\ lastErr' = "none" /\ attempt <= RetrySteps) =>
          /\ saveRet' = "nil"
          /\ "PolicyReport update failed" \notin saveLog'
          /\ repo'[saveTarget].exists
          /\ repo'[saveTarget].entries = saveReport
          /\ repo'[saveTarget].version > repo[saveTarget].version
          /\ repo'[saveTarget].version > updSent'.token]_vars

\* four conflicts, then the Update of the fifth attempt succeeded
C8_Witness ==
    /\ savePc = "done"
    /\ lastErr = "none"
    /\ saveRet = "nil"
    /\ attempt = RetrySteps
    /\ updSent.n > 0
    /\ updSent.attempt = RetrySteps
    /\ saveReport # <<>>
    /\ repo[saveTarget] = Stored(reportRV, saveReport)
    /\ "PolicyReport update failed" \notin saveLog

\* C9: when the Update of the last attempt conflicts too, Save logs the
\* failed update and returns nil; the scanner, given that return, goes on
\* with the listing: no namespace is marked failed and no error is returned.
C9_ExhaustionDoesNotAbort ==
    [][/\ (savePc = "update" /\ savePc' = "done" /\ lastErr' = "conflict") =>
             (/\ attempt = RetrySteps
              /\ saveTarget \in exhausted'
              /\ "PolicyReport update failed" \in saveLog'
              /\ saveRet' = "nil")
       /\ (scanPc = "waitSave" /\ savePc = "done" /\ lastErr = "conflict") =>
             (/\ scanPc' = "listItems"
              /\ scanLog' = scanLog
              /\ UNCHANGED <<nsResult, retErr, resTodo, gvrTodo, nsTodo>>)]_vars

\* the retries on pod1's report were exhausted, and the all-namespaces scan
\* went on to pod2 and to pod3 of the next namespace and returned no error
C9_Witness ==
    /\ "pod1" \in exhausted
    /\ mode = "all"
    /\ scanPc = "returned"
    /\ reconciles = <<"pod1", "pod2", "pod3">>
    /\ retErr = {}

\* C10: after a second Save in succession, with no other writer and no
\* failing repository call since the first began, the persisted entries are
\* exactly those of the second report.
C10_SecondReportReplaces ==
    (saveNo >= 2 /\ savePc = "done" /\ ~saveHist.ext /\ ~saveHist.fault) =>
        /\ saveRet = "nil"
        /\ repo[HarnessTarget].exists
        /\ repo[HarnessTarget].entries = saveReport

\* the first report held an entry the second does not hold
C10_Witness ==
    /\ saveNo = 2
    /\ savePc = "done"
    /\ ~saveHist.ext
    /\ ~saveHist.fault
    /\ saveHist.prev = <<Entry("p-none", "pass"), Entry("p-sel", "fail")>>
    /\ saveReport = <<Entry("p-sel", "fail")>>
    /\ repo[HarnessTarget].entries = saveReport

-----------------------------------------------------------------------------
(* Properties of the store's cache *)

PutCalls == {"AddPolicyReport", "UpdatePolicyReport"}
ClusterPutCalls == {"AddClusterPolicyReport", "UpdateClusterPolicyReport"}

\* goroutine g's call returns in this step
Returns(g) == opPc[g] # "idle" /\ opPc'[g] = "idle"

\* C12: whatever the interleaving of the goroutines' calls, the entry of each
\* namespace is absent or the last report put for it; the step in which a Put
\* writes stores its report under its namespace and leaves the entry of every
\* other namespace and the cluster report as they were, and a Put of the
\* cluster report leaves the map as it was.
C12_PutTouchesOwnScopeOnly ==
    [][/\ \A n \in Namespaces :
             namespacedPolicyReports'[n] \in {NoReport, lastPut'[n]} \ {RemovedReport}
       /\ \A g \in Goroutines :
             /\ (opCall[g].name \in PutCalls /\ opPc[g] = "cs" /\ Returns(g)) =>
                   /\ namespacedPolicyReports'[opCall[g].ns] = opCall[g].report
                   /\ \A n \in Namespaces \ {opCall[g].ns} :
                         namespacedPolicyReports'[n] = namespacedPolicyReports[n]
                   /\ clusterPolicyReport' = clusterPolicyReport
             /\ (opCall[g].name \in ClusterPutCalls /\ opPc[g] = "cs" /\ Returns(g)) =>
                   namespacedPolicyReports' = namespacedPolicyReports]_vars

\* three calls were made by the two goroutines; the last call of g1 put a
\* report for ns1, the last call of g2 put one for ns2, and both are cached
C12_Witness ==
    /\ opCall["g1"].name \in PutCalls /\ opCall["g1"].ns = "ns1" /\ opPc["g1"] = "idle"
    /\ opCall["g2"].name \in PutCalls /\ opCall["g2"].ns = "ns2" /\ opPc["g2"] = "idle"
    /\ storeOps = 3
    /\ namespacedPolicyReports["ns1"] = CacheReport("ns1", "r1")
    /\ namespacedPolicyReports["ns2"] = CacheReport("ns2", "r2")

\* C13: no goroutine is reading a collection of the store (the map of
\* namespaced reports, the cluster report) while another is writing it.
C13_NoReadDuringWrite ==
    \A g \in Goroutines : \A q \in Goroutines \ {g} :
        /\ ~(ReadsNamespaced(g) /\ WritesNamespaced(q))
        /\ ~(ReadsCluster(g) /\ WritesCluster(q))

-----------------------------------------------------------------------------
(* Properties of the reports handed to the store *)

\* C14: during the scan of a namespace the store is handed a report at most
\* once, and while it is handed one no resource of the namespace is still to
\* be audited, in the listing under way or under a resource type not yet listed.
C14_OneReconcilePerScope ==
    \A n \in Namespaces :
        /\ ReconcilesOf(n) <= 1
        /\ (curNs = n /\ scanPc \in {"reconcile", "waitSave"}) =>
              (resTodo = <<>> /\ \A gvr \in gvrTodo : ResourcesOf(n, gvr) = <<>>)

\* the (resource, policy) pairs of a namespace whose policy is bound to the
\* resource's type and matches the resource
MatchingPairs(n) ==
    {<<r.name, p.name>> : <<r, p>> \in
        {<<r, p>> \in Resources \X Policies :
            /\ r.ns = n
            /\ r.gvr \in DOMAIN PoliciesByGVR(n)
            /\ p \in Range(PoliciesByGVR(n)[r.gvr])
            /\ policyMatches(p, r).matches}}

\* the store persisted the report built for resource r
PersistedByStore(r) == repo[r.name].exists /\ repo[r.name].entries # ForeignEntries

\* C16: after the scan of a namespace that returned no error and whose
\* reports the store persisted, one persisted report of the namespace holds
\* one entry per (resource, matching policy) pair of the namespace.
C16_NamespaceReportComplete ==
    \A n \in Namespaces :
        (/\ nsResult[n] = "ok"
         /\ \A r \in Resources : r.ns = n => PersistedByStore(r)) =>
            \E r \in Resources :
                /\ r.ns = n
                /\ Len(repo[r.name].entries) = Cardinality(MatchingPairs(n))

-----------------------------------------------------------------------------
(* Properties of the cache's reads and removals *)

\* C17: the map holds one entry per namespace at most; GetPolicyReport
\* returns "report not found" with the zero report exactly when no report was
\* put for the namespace since the store was built or since its last removal,
\* and the report of the last Put otherwise; GetClusterPolicyReport returns
\* the last cluster report put (the initial one if none), never an error.
C17_GetReturnsLastPut ==
    [][\A g \in Goroutines :
          /\ (opCall[g].name = "GetPolicyReport" /\ opPc[g] = "cs" /\ Returns(g)) =>
                opResult'[g] = IF lastPut[opCall[g].ns] \in {NoReport, RemovedReport}
                               THEN Result(ZeroReport, "report not found")
                               ELSE Result(lastPut[opCall[g].ns], "nil")
          /\ (opCall[g].name = "GetClusterPolicyReport" /\ opPc[g] = "cs" /\ Returns(g)) =>
                opResult'[g] = Result(lastPut["cluster"], "nil")]_vars

\* the last call of g1, a Get for ns1, returned the report that
\* UpdatePolicyReport put for ns1
C17_Witness ==
    /\ opCall["g1"].name = "GetPolicyReport" /\ opCall["g1"].ns = "ns1"
    /\ opPc["g1"] = "idle"
    /\ opResult["g1"] = Result(CacheReport("ns1", "r2"), "nil")
    /\ lastPut["ns1"] = CacheReport("ns1", "r2")

\* C18: RemoveAllNamespacedPolicyReports leaves no entry in the map and the
\* cluster report as it was; RemovePolicyReport removes the entry of its
\* namespace only, changes nothing when the namespace has no entry, and
\* returns nil in both cases; an entry removed stays absent until a Put.
C18_RemoveTouchesOwnScopeOnly ==
    [][/\ \A n \in Namespaces :
             lastPut'[n] \in {NoReport, RemovedReport} => namespacedPolicyReports'[n] = NoReport
       /\ \A g \in Goroutines :
             /\ (opCall[g].name = "RemoveAllNamespacedPolicyReports" /\ Returns(g)) =>
                   /\ \A n \in Namespaces : namespacedPolicyReports'[n] = NoReport
                   /\ clusterPolicyReport' = clusterPolicyReport
                   /\ opResult'[g] = NilResult
             /\ (opCall[g].name = "RemovePolicyReport" /\ Returns(g)) =>
                   /\ namespacedPolicyReports'[opCall[g].ns] = NoReport
                   /\ \A n \in Namespaces \ {opCall[g].ns} :
                         namespacedPolicyReports'[n] = namespacedPolicyReports[n]
                   /\ clusterPolicyReport' = clusterPolicyReport
                   /\ opResult'[g] = NilResult
                   /\ (opPc[g] = "cs" => namespacedPolicyReports' = namespacedPolicyReports)]_vars

\* the last call of g1 removed the entry of ns1, which held a report, while
\* the report g2 put for ns2 stays cached
C18_Witness ==
    /\ opCall["g1"].name = "RemovePolicyReport" /\ opCall["g1"].ns = "ns1"
    /\ opPc["g1"] = "idle"
    /\ opCall["g2"].name = "UpdatePolicyReport" /\ opCall["g2"].ns = "ns2"
    /\ opPc["g2"] = "idle"
    /\ lastPut["ns1"] = RemovedReport
    /\ namespacedPolicyReports = [MakeMap EXCEPT !["ns2"] = CacheReport("ns2", "r2")]

\* C20: a goroutine that is inside Save, from its first statement to its
\* return and so during each Get, Create and Update it sends to the
\* repository, holds neither mutex of the store: a mutex is held only between
\* the Lock or RLock of a cache method and its return.
C20_NoLockAcrossNetworkCalls ==
    \A g \in Goroutines :
        /\ opPc[g] = "save" =>
              /\ ~Holds(namespacedPolicyReportsMutex, g)
              /\ ~Holds(clusterPolicyReportMutex, g)
        /\ (Holds(namespacedPolicyReportsMutex, g) \/ Holds(clusterPolicyReportMutex, g)) =>
              opPc[g] \in {"cs", "cs2"}

\* after a report was put for ns1 under the map's mutex, g1 is at the Update
\* of Save while g2 holds the map's mutex for a write
C20_Witness ==
    /\ opPc["g1"] = "save"
    /\ savePc = "update"
    /\ storeOps = 3
    /\ namespacedPolicyReports["ns1"] = CacheReport("ns1", "r1")
    /\ opPc["g2"] = "cs"
    /\ namespacedPolicyReportsMutex.writer = "g2"

-----------------------------------------------------------------------------
(* Properties of the scan's failure paths *)

\* C21: the audit of a pair whose evaluator call failed, and so returned no
\* review, does not end in the panic of a read through the absent review.
C21_AbsentResponseNotRead ==
    ~(scanPc = "panicked" /\ auditResponse = "nil")

\* C22: when the list of audited namespaces could not be fetched, the
\* all-namespaces scan does not panic; it scans no namespace, and once it has
\* returned its error holds the list failure.
C22_ListFailureReturned ==
    (mode = "all" /\ listErr) =>
        /\ scanPc # "panicked"
        /\ \A n \in Namespaces : nsScans[n] = 0
        /\ scanPc = "returned" => <<"all", "list namespaces">> \in retErr

-----------------------------------------------------------------------------
(* Properties of Save's retry loop *)

\* C23: a call of Save makes RetrySteps attempts at most, each with one Get
\* and one Update; an error of the closure's Get, or an error of its Update
\* that is not a conflict, ends the loop in that step; and every call of Save
\* that has begun returns.
C23_SaveTerminates ==
    /\ [](attempt <= RetrySteps /\ updSent.n <= RetrySteps)
    /\ [][((savePc = "update" /\ lastErr' \notin {"none", "conflict"}) =>
               (savePc' = "done" /\ attempt' = attempt))
           /\ ((savePc = "loopGet" /\ lastErr' = "failed when getting PolicyReport") =>
                  (savePc' = "done" /\ attempt' = attempt))
           /\ ((savePc = "update" /\ savePc' = "loopGet") =>
                  (lastErr' = "conflict" /\ attempt' = attempt + 1))]_vars
    /\ (SaveRunning ~> savePc = "done")

\* the Update of every attempt conflicted, and Save returned after the last
C23_Witness ==
    /\ savePc = "done"
    /\ lastErr = "conflict"
    /\ attempt = RetrySteps
    /\ updSent.n = RetrySteps
    /\ saveRet = "nil"

\* C24: in the step in which Save returns nil without having logged a failed
\* update, the repository holds the object of the report with the report's
\* entries.
C24_NilReturnMeansPersisted ==
    [][(savePc # "done" /\ savePc' = "done" /\ saveRet' = "nil"
            /\ "PolicyReport update failed" \notin saveLog') =>
          (/\ repo'[saveTarget].exists
           /\ repo'[saveTarget].entries = saveReport)]_vars

====
